---- MODULE Spec2Model ----
(***************************************************************************)
(* Model of the notification handler of triagebot,                         *)
(* src/src/handlers/notification.rs: `handle(ctx, event)`.                 *)
(*                                                                         *)
(* One run of `handle` is a sequence of steps, one per await point: the    *)
(* acknowledgement loop, the event gate, the loop over the captured        *)
(* mention tokens and the loop over the users each token resolves to.      *)
(* The directory (get_id, get_team) and the store (delete_ping,            *)
(* record_username, record_ping, make_db_client) are the environment: the  *)
(* directory's contents are fixed, and every call to it or to the store    *)
(* may fail.                                                               *)
(***************************************************************************)
EXTENDS Integers, Sequences, FiniteSets, TLC

(***************************************************************************)
(* Bounds of the model.                                                    *)
(***************************************************************************)
\* mention tokens in one body
MaxMentions == 2
\* acknowledgements in one body
MaxAcks == 2
\* failures the environment injects in one run (connection, directory, store)
MaxFaults == 1

(***************************************************************************)
(* Option<T>: None is the empty sequence, Some(x) the one-element one.     *)
(***************************************************************************)
None == <<>>
Some(x) == <<x>>
Unwrap(o) == o[1]

\* anyhow::Result<T>
Ok(x) == [ok |-> TRUE, v |-> <<x>>]
Err(m) == [ok |-> FALSE, v |-> <<>>, err |-> m]

(***************************************************************************)
(* Numeric ids.  The directory's ids are usize (64 bits), written here as  *)
(* four 16-bit limbs, most significant first; the ledger's ids are i64.    *)
(* i64::try_from(u64) succeeds exactly when the top bit is clear.          *)
(***************************************************************************)
TopLimbSignBit == 32768
U64(n) == <<0, 0, 0, n>>
U64Huge == <<TopLimbSignBit, 0, 0, 0>>

\* i64::try_from(id).with_context(|| "user id {} out of bounds")
TryFromU64(id) ==
    IF id[1] < TopLimbSignBit THEN Ok(id) ELSE Err("user id out of bounds")

(***************************************************************************)
(* The identity directory consulted by User::get_id and github::get_team.  *)
(***************************************************************************)
UserDir ==
    [alice |-> Some(U64(7)), bob |-> Some(U64(9)), huge |-> Some(U64Huge)]

TeamDir ==
    [core |-> [name |-> "core",
               members |-> << [github |-> "alice", github_id |-> U64(7)],
                              [github |-> "bob", github_id |-> U64(9)] >>],
     wide |-> [name |-> "wide",
               members |-> << [github |-> "alice", github_id |-> U64(7)],
                              [github |-> "huge", github_id |-> U64Huge],
                              [github |-> "bob", github_id |-> U64(9)] >>]]

\* User::get_id when the directory answers: Ok(Some(id)) or Ok(None)
DirGetId(login) == IF login \in DOMAIN UserDir THEN UserDir[login] ELSE None

\* github::get_team when the directory answers: Ok(Some(team)) or Ok(None)
DirGetTeam(team) == IF team \in DOMAIN TeamDir THEN Some(TeamDir[team]) ELSE None

(***************************************************************************)
(* Text.  A body is a sequence of items: a mention "@a/b" is the item      *)
(* [kind |-> "mention", val |-> <<"a", "b">>] (its '/'-separated           *)
(* segments), "acknowledge <url>" is [kind |-> "ack", val |-> <<url>>].    *)
(***************************************************************************)
Mention(segs) == [kind |-> "mention", val |-> segs]
Ack(url) == [kind |-> "ack", val |-> <<url>>]

\* the tokens of the model, in a fixed order
TokenList ==
    << <<"alice">>, <<"bob">>, <<"ghost">>, <<"huge">>,
       <<"rust-lang", "core">>, <<"other", "core">>,
       <<"rust-lang", "wide">>, <<"rust-lang", "nope">> >>

Tokens == { TokenList[i] : i \in DOMAIN TokenList }

UrlList == << "https://example.com/1", "https://example.com/2" >>

Urls == { UrlList[i] : i \in DOMAIN UrlList }

\* the sequences over list of length at most n, one for each choice of
\* elements in the order of list and, where it says something about the
\* text, in the opposite order: nothing in handle depends on more
Ascending(list, n) ==
    { [i \in DOMAIN ix |-> list[ix[i]]] :
        ix \in { s \in UNION { [1..k -> DOMAIN list] : k \in 0..n } :
                   \A i \in 1..(Len(s) - 1) : s[i] <= s[i + 1] } }

Descending(list, n) ==
    { [i \in DOMAIN ix |-> list[ix[i]]] :
        ix \in { s \in UNION { [1..k -> DOMAIN list] : k \in 0..n } :
                   \A i \in 1..(Len(s) - 1) : s[i] > s[i + 1] } }

Bodies ==
    { [i \in 1..(Len(m) + Len(a)) |->
          IF i <= Len(m) THEN Mention(m[i]) ELSE Ack(a[i - Len(m)])]
      : m \in Ascending(TokenList, MaxMentions) \cup Descending(TokenList, MaxMentions),
        a \in Ascending(UrlList, MaxAcks) }

\* PING_RE.captures_iter(body) ... collect::<HashSet<_>>()
RECURSIVE PingCaptures(_)
PingCaptures(body) ==
    IF body = <<>> THEN {}
    ELSE (IF Head(body).kind = "mention" THEN {Head(body).val} ELSE {})
         \cup PingCaptures(Tail(body))

\* ACKNOWLEDGE_RE.captures_iter(body) ... collect::<Vec<_>>()
RECURSIVE AckCaptures(_)
AckCaptures(body) ==
    IF body = <<>> THEN <<>>
    ELSE (IF Head(body).kind = "ack" THEN <<Head(body).val[1]>> ELSE <<>>)
         \o AckCaptures(Tail(body))

\* login.contains('/')
ContainsSlash(login) == Len(login) > 1

\* faulty variant: the namespace segment is used for the lookup
NamespaceSegment(login) == login[1]

\* let _rust_lang = iter.next().unwrap(); let team = iter.next().unwrap();
TeamSegment(login) == login[2]

(***************************************************************************)
(* Events.                                                                 *)
(***************************************************************************)
Families == {"Issue", "IssueComment"}
Actions(f) == IF f = "Issue" THEN {"Opened", "Edited"} ELSE {"Created", "Edited"}
Actors == { [login |-> "alice", id |-> Some(U64(7))],
            [login |-> "mallory", id |-> None] }
Title == "Tracking issue"
EventTime == "2021-03-01T10:00:00Z"

Events ==
    { [family |-> f, action |-> a, body |-> b, title |-> Title,
       html_url |-> u, user |-> w, time |-> EventTime]
      : f \in Families, a \in {"Opened", "Created", "Edited"},
        b \in {None} \cup {Some(x) : x \in Bodies},
        u \in {None, Some("https://example.com/1")}, w \in Actors }

ValidEvents == { e \in Events : e.action \in Actions(e.family) }

(***************************************************************************)
(* The notification ledger (crate::db::notifications).                     *)
(***************************************************************************)
\* notifications::Notification
Notification(user_id, origin_url, origin_html, time, short_description, team_name) ==
    [user_id |-> user_id, origin_url |-> origin_url, origin_html |-> origin_html,
     time |-> time, short_description |-> short_description,
     team_name |-> team_name]

\* delete_ping(db, user_id, Identifier::Url(url)): every row of that user
\* with that origin URL goes; no such row is not an error
DeletePing(rows, user_id, url) ==
    SelectSeq(rows, LAMBDA n : ~(n.user_id = user_id /\ n.origin_url = url))

\* record_ping(db, notification): append
RecordPing(rows, n) == Append(rows, n)

\* record_username(db, user_id, username): upsert of the login of an id
RecordUsername(names, user_id, username) ==
    { x \in names : x.user_id # user_id }
        \cup { [user_id |-> user_id, username |-> username] }

\* rows left by earlier events: a ping of team core on issue 1, a direct
\* ping of bob on issue 2, a direct ping of alice on issue 3
EarlierRows ==
    << Notification(U64(7), "https://example.com/1", <<Mention(<<"rust-lang", "core">>)>>,
                    "2021-02-01T10:00:00Z", Some(<<Title>>), Some("core")),
       Notification(U64(9), "https://example.com/1", <<Mention(<<"rust-lang", "core">>)>>,
                    "2021-02-01T10:00:00Z", Some(<<Title>>), Some("core")),
       Notification(U64(9), "https://example.com/2", <<Mention(<<"bob">>)>>,
                    "2021-02-02T10:00:00Z", Some(<<"Comment on ", Title>>), None),
       Notification(U64(7), "https://example.com/3", <<Mention(<<"alice">>)>>,
                    "2021-02-03T10:00:00Z", Some(<<"Comment on ", Title>>), None) >>

EarlierNames ==
    { [user_id |-> U64(7), username |-> "alice"],
      [user_id |-> U64(9), username |-> "bob"] }

(***************************************************************************)
(* State.  run[p] is the state of the p-th invocation of handle: its       *)
(* position, its event, its locals, its result, and the history of what it *)
(* called and logged.  notifications and users are the store's tables.     *)
(***************************************************************************)
VARIABLES run, notifications, users

vars == <<run, notifications, users>>

Procs == {1, 2}

NoEvent ==
    [family |-> "Issue", action |-> "Opened", body |-> None, title |-> Title,
     html_url |-> None, user |-> [login |-> "", id |-> None], time |-> EventTime]

Idle ==
    [pc |-> "idle", event |-> NoEvent, acks |-> <<>>, gate |-> "unevaluated",
     short_description |-> <<>>, caps |-> {}, users_notified |-> {},
     users |-> <<>>, team_name |-> None, result |-> "none",
     calls |-> <<>>, log |-> <<>>, faults |-> {}, injected |-> 0]

\* History kept for the properties: calls is the sequence of the calls made
\* to the directory and the store (make_db_client only when it fails), log
\* the messages logged, faults what went wrong in the run: the calls that
\* failed ("make_db_client", "delete_ping", "get_team", "get_id",
\* "record_username", "record_ping"), an acting user without id where one
\* was needed ("no_actor_id"), an id that does not fit i64
\* ("out_of_bounds"), an event without URL where one was needed
\* ("no_html_url"); injected counts the failed calls.

Init ==
    /\ run = [p \in Procs |-> Idle]
    /\ notifications = EarlierRows
    /\ users = EarlierNames

\* log::trace! / log::warn! / log::error!
Logged(r, level, msg) == Append(r.log, [level |-> level, msg |-> msg])

\* the environment may still make a call fail
MayFail(r) == r.injected < MaxFaults

\* event.comment_body()
CommentBody(e) == e.body

\* match event { Issue(e) => &e.issue.user, IssueComment(e) => &e.comment.user }
EventUser(e) == e.user

(***************************************************************************)
(* handle, lines 23-35: no body, no work; otherwise capture the            *)
(* acknowledgements.                                                       *)
(***************************************************************************)
\* faulty variant: an event without body is an error
EnterOrFail(p, e) ==
    /\ run' = [run EXCEPT ![p] =
                 IF CommentBody(e) = None
                 THEN [@ EXCEPT !.pc = "done", !.event = e, !.result = "Err"]
                 ELSE [@ EXCEPT !.pc = "ack", !.event = e,
                                !.acks = AckCaptures(Unwrap(CommentBody(e))),
                                !.log = Logged(run[p], "trace", "Captured acknowledgements")]]
    /\ UNCHANGED <<notifications, users>>

\* lines 23-35: an event without body returns Ok at once; otherwise the
\* acknowledgements of the body are captured
Enter(p, e) ==
    /\ run' = [run EXCEPT ![p] =
                 IF CommentBody(e) = None
                 THEN [@ EXCEPT !.pc = "done", !.event = e, !.result = "Ok"]
                 ELSE [@ EXCEPT !.pc = "ack", !.event = e,
                                !.acks = AckCaptures(Unwrap(CommentBody(e))),
                                !.log = Logged(run[p], "trace", "Captured acknowledgements")]]
    /\ UNCHANGED <<notifications, users>>

\* handle is called with one of the events
StartIn(p, events) ==
    /\ run[p].pc = "idle"
    /\ \E e \in events : Enter(p, e)

Start(p) == StartIn(p, ValidEvents)

(***************************************************************************)
(* The acknowledgement loop, lines 36-64.                                  *)
(***************************************************************************)
\* lines 41-48: the acting user has no id: handle returns
AckNoId(p) ==
    LET r == run[p] IN
    /\ r.pc = "ack" /\ r.acks # <<>>
    /\ EventUser(r.event).id = None
    /\ run' = [run EXCEPT ![p] =
                 [r EXCEPT !.pc = "done", !.result = "Ok",
                           !.log = Logged(r, "trace", "Skipping because no id found"),
                           !.faults = @ \cup {"no_actor_id"}]]
    /\ UNCHANGED <<notifications, users>>

\* line 51: Context::make_db_client(..).await? fails: handle returns the error
AckConnFail(p) ==
    LET r == run[p] IN
    /\ r.pc = "ack" /\ r.acks # <<>>
    /\ EventUser(r.event).id # None
    /\ MayFail(r)
    /\ run' = [run EXCEPT ![p] =
                 [r EXCEPT !.pc = "done", !.result = "Err",
                           !.calls = Append(@, [op |-> "make_db_client",
                                                url |-> Head(r.acks), ok |-> FALSE]),
                           !.faults = @ \cup {"make_db_client"},
                           !.injected = @ + 1]]
    /\ UNCHANGED <<notifications, users>>

\* faulty variant: the delete is keyed by the URL alone
DeleteAckedOfAnyUser(rows, r) ==
    SelectSeq(rows, LAMBDA n : n.origin_url # Head(r.acks))

\* lines 50-54: delete_ping(.., id, Identifier::Url(&url)) with the acting
\* user's id and the acknowledged URL
DeleteAcked(rows, r) ==
    DeletePing(rows, Unwrap(EventUser(r.event).id), Head(r.acks))

\* faulty variant: the delete reports success and removes nothing
AckDeleteKeepsRows(p) ==
    LET r == run[p]
        id == Unwrap(EventUser(r.event).id)
        url == Head(r.acks) IN
    /\ r.pc = "ack" /\ r.acks # <<>>
    /\ EventUser(r.event).id # None
    /\ run' = [run EXCEPT ![p] =
                 [r EXCEPT !.acks = Tail(@),
                           !.calls = Append(@, [op |-> "delete_ping", user_id |-> id,
                                                url |-> url, ok |-> TRUE])]]
    /\ UNCHANGED <<notifications, users>>

\* lines 50-55: delete_ping succeeds
AckDelete(p) ==
    LET r == run[p]
        id == Unwrap(EventUser(r.event).id)
        url == Head(r.acks) IN
    /\ r.pc = "ack" /\ r.acks # <<>>
    /\ EventUser(r.event).id # None
    /\ notifications' = DeleteAcked(notifications, r)
    /\ run' = [run EXCEPT ![p] =
                 [r EXCEPT !.acks = Tail(@),
                           !.calls = Append(@, [op |-> "delete_ping", user_id |-> id,
                                                url |-> url, ok |-> TRUE])]]
    /\ UNCHANGED users

\* lines 50-63: delete_ping fails: a warning, then the next acknowledgement
AckDeleteFail(p) ==
    LET r == run[p]
        id == Unwrap(EventUser(r.event).id)
        url == Head(r.acks) IN
    /\ r.pc = "ack" /\ r.acks # <<>>
    /\ EventUser(r.event).id # None
    /\ MayFail(r)
    /\ run' = [run EXCEPT ![p] =
                 [r EXCEPT !.acks = Tail(@),
                           !.calls = Append(@, [op |-> "delete_ping", user_id |-> id,
                                                url |-> url, ok |-> FALSE]),
                           !.log = Logged(r, "warn", "failed to delete notification"),
                           !.faults = @ \cup {"delete_ping"},
                           !.injected = @ + 1]]
    /\ UNCHANGED <<notifications, users>>

(***************************************************************************)
(* The event gate, lines 66-83, then lines 85-95.                          *)
(***************************************************************************)
\* faulty variant: the gate lets every action through
GateSkipsNever(e) == FALSE

\* lines 66-83: an issue not being opened, a comment not being created
GateSkips(e) ==
    \/ e.family = "Issue" /\ e.action # "Opened"
    \/ e.family = "IssueComment" /\ e.action # "Created"

\* faulty variant: the title alone for every event
ShortDescriptionOfIssue(e) == <<e.title>>

\* lines 85-88
ShortDescription(e) ==
    IF e.family = "Issue" THEN <<e.title>> ELSE <<"Comment on ", e.title>>

GateSkip(p) ==
    LET r == run[p] IN
    /\ r.pc = "ack" /\ r.acks = <<>>
    /\ GateSkips(r.event)
    /\ run' = [run EXCEPT ![p] =
                 [r EXCEPT !.pc = "done", !.result = "Ok", !.gate = "skip"]]
    /\ UNCHANGED <<notifications, users>>

\* faulty variant: the set of seen ids outlives the call: it starts from the
\* ids the other runs have seen
GateProceedSeenShared(p) ==
    LET r == run[p] IN
    /\ r.pc = "ack" /\ r.acks = <<>>
    /\ ~GateSkips(r.event)
    /\ run' = [run EXCEPT ![p] =
                 [r EXCEPT !.pc = "mention", !.gate = "proceed",
                           !.short_description = ShortDescription(r.event),
                           !.caps = PingCaptures(Unwrap(CommentBody(r.event))),
                           !.users_notified =
                               UNION { run[q].users_notified : q \in Procs \ {p} },
                           !.log = Logged(r, "trace", "Captured usernames in comment")]]
    /\ UNCHANGED <<notifications, users>>

\* lines 66-96: the event passes the gate; the description, the captured
\* tokens and an empty set of seen ids
GateProceed(p) ==
    LET r == run[p] IN
    /\ r.pc = "ack" /\ r.acks = <<>>
    /\ ~GateSkips(r.event)
    /\ run' = [run EXCEPT ![p] =
                 [r EXCEPT !.pc = "mention", !.gate = "proceed",
                           !.short_description = ShortDescription(r.event),
                           !.caps = PingCaptures(Unwrap(CommentBody(r.event))),
                           !.users_notified = {},
                           !.log = Logged(r, "trace", "Captured usernames in comment")]]
    /\ UNCHANGED <<notifications, users>>

(***************************************************************************)
(* The loop over the captured tokens, lines 96-175.  caps is a HashSet:    *)
(* its iteration order is not the order of the text, any token left may    *)
(* come next.                                                              *)
(***************************************************************************)
\* github::User
User(login, id) == [login |-> login, id |-> id]

\* lines 129-140: members.into_iter().map(try_from ...).collect::<Result<Vec<_>>>():
\* the first member whose id does not convert makes the whole result an Err
RECURSIVE CollectMembers(_)
CollectMembers(members) ==
    IF members = <<>> THEN Ok(<<>>)
    ELSE LET id == TryFromU64(Head(members).github_id)
             rest == CollectMembers(Tail(members)) IN
         IF ~id.ok THEN Err(id.err)
         ELSE IF ~rest.ok THEN rest
         ELSE Ok(<<User(Head(members).github, Some(Unwrap(id.v)))>> \o Unwrap(rest.v))

\* where the loop over users leads: into it, or on to the next token
AfterUsers(us) == IF us = <<>> THEN "mention" ELSE "users"

\* lines 112-126: get_team fails: an error is logged, next token
TeamErr(p) ==
    LET r == run[p] IN
    /\ r.pc = "mention" /\ MayFail(r)
    /\ \E login \in r.caps :
         /\ ContainsSlash(login)
         /\ run' = [run EXCEPT ![p] =
                      [r EXCEPT !.caps = @ \ {login},
                                !.calls = Append(@, [op |-> "get_team",
                                                     team |-> TeamSegment(login), ok |-> FALSE]),
                                !.log = Logged(r, "error", "team ping failed to resolve to a known team"),
                                !.faults = @ \cup {"get_team"},
                                !.injected = @ + 1]]
    /\ UNCHANGED <<notifications, users>>

\* lines 112-117: no such team: an error is logged, next token
TeamAbsent(p) ==
    LET r == run[p] IN
    /\ r.pc = "mention"
    /\ \E login \in r.caps :
         /\ ContainsSlash(login)
         /\ DirGetTeam(TeamSegment(login)) = None
         /\ run' = [run EXCEPT ![p] =
                      [r EXCEPT !.caps = @ \ {login},
                                !.calls = Append(@, [op |-> "get_team",
                                                     team |-> TeamSegment(login), ok |-> TRUE]),
                                !.log = Logged(r, "error", "team ping failed to resolve to a known team")]]
    /\ UNCHANGED <<notifications, users>>

\* lines 112-142 and 169-175: the team is found and its members are converted
TeamFound(p) ==
    LET r == run[p] IN
    /\ r.pc = "mention"
    /\ \E login \in r.caps :
         /\ ContainsSlash(login)
         /\ DirGetTeam(TeamSegment(login)) # None
         /\ LET team == Unwrap(DirGetTeam(TeamSegment(login)))
                 us == CollectMembers(team.members)
                 called == Append(r.calls, [op |-> "get_team",
                                            team |-> TeamSegment(login), ok |-> TRUE]) IN
            run' = [run EXCEPT ![p] =
                      IF us.ok
                      THEN [r EXCEPT !.caps = @ \ {login}, !.calls = called,
                                     !.users = Unwrap(us.v),
                                     !.team_name = Some(team.name),
                                     !.pc = AfterUsers(Unwrap(us.v))]
                      ELSE [r EXCEPT !.caps = @ \ {login}, !.calls = called,
                                     !.log = Logged(r, "error", "getting users failed"),
                                     !.faults = @ \cup {"out_of_bounds"}]]
    /\ UNCHANGED <<notifications, users>>

\* lines 144-148: get_id fails: `?` returns the error from handle
GetIdErr(p) ==
    LET r == run[p] IN
    /\ r.pc = "mention" /\ MayFail(r)
    /\ \E login \in r.caps :
         /\ ~ContainsSlash(login)
         /\ run' = [run EXCEPT ![p] =
                      [r EXCEPT !.caps = @ \ {login},
                                !.calls = Append(@, [op |-> "get_id",
                                                     login |-> login[1], ok |-> FALSE]),
                                !.pc = "done", !.result = "Err",
                                !.faults = @ \cup {"get_id"},
                                !.injected = @ + 1]]
    /\ UNCHANGED <<notifications, users>>

\* faulty variant: a login without id is taken to have the default id
GetIdAbsentAsDefault(p) ==
    LET r == run[p] IN
    /\ r.pc = "mention"
    /\ \E login \in r.caps :
         /\ ~ContainsSlash(login)
         /\ DirGetId(login[1]) = None
         /\ run' = [run EXCEPT ![p] =
                      [r EXCEPT !.caps = @ \ {login},
                                !.calls = Append(@, [op |-> "get_id",
                                                     login |-> login[1], ok |-> TRUE]),
                                !.users = <<User(login[1], Some(U64(0)))>>,
                                !.team_name = None,
                                !.pc = "users"]]
    /\ UNCHANGED <<notifications, users>>

\* lines 149-156: the login has no id: next token
GetIdAbsent(p) ==
    LET r == run[p] IN
    /\ r.pc = "mention"
    /\ \E login \in r.caps :
         /\ ~ContainsSlash(login)
         /\ DirGetId(login[1]) = None
         /\ run' = [run EXCEPT ![p] =
                      [r EXCEPT !.caps = @ \ {login},
                                !.calls = Append(@, [op |-> "get_id",
                                                     login |-> login[1], ok |-> TRUE]),
                                !.log = Logged(r, "trace", "Skipping because no id found")]]
    /\ UNCHANGED <<notifications, users>>

\* lines 149-175: the login has an id, which is converted
GetIdFound(p) ==
    LET r == run[p] IN
    /\ r.pc = "mention"
    /\ \E login \in r.caps :
         /\ ~ContainsSlash(login)
         /\ DirGetId(login[1]) # None
         /\ LET id == TryFromU64(Unwrap(DirGetId(login[1])))
                 called == Append(r.calls, [op |-> "get_id",
                                            login |-> login[1], ok |-> TRUE]) IN
            run' = [run EXCEPT ![p] =
                      IF id.ok
                      THEN [r EXCEPT !.caps = @ \ {login}, !.calls = called,
                                     !.users = <<User(login[1], Some(Unwrap(id.v)))>>,
                                     !.team_name = None,
                                     !.pc = "users"]
                      ELSE [r EXCEPT !.caps = @ \ {login}, !.calls = called,
                                     !.log = Logged(r, "error", "getting users failed"),
                                     !.faults = @ \cup {"out_of_bounds"}]]
    /\ UNCHANGED <<notifications, users>>

\* line 209: no token is left
Finish(p) ==
    LET r == run[p] IN
    /\ r.pc = "mention" /\ r.caps = {}
    /\ run' = [run EXCEPT ![p] = [r EXCEPT !.pc = "done", !.result = "Ok"]]
    /\ UNCHANGED <<notifications, users>>

(***************************************************************************)
(* The loop over the users of one token, lines 177-206.                    *)
(***************************************************************************)
\* faulty variant: no user counts as already notified
InsertFreshAlways(seen, id) == TRUE

\* faulty variant: the test of the insertion is inverted
InsertFreshInverted(seen, id) == id \in seen

\* line 178: users_notified.insert(id) returns whether id is new
InsertFresh(seen, id) == id \notin seen

\* lines 178-181: skip a user already associated with this event
UserSeen(p) ==
    LET r == run[p]
        id == Unwrap(Head(r.users).id) IN
    /\ r.pc = "users" /\ r.users # <<>>
    /\ ~InsertFresh(r.users_notified, id)
    /\ run' = [run EXCEPT ![p] =
                 [r EXCEPT !.users = Tail(@), !.pc = AfterUsers(Tail(r.users))]]
    /\ UNCHANGED <<notifications, users>>

\* lines 178-188: the user is new to this event; record_username succeeds
RecordUsernameOk(p) ==
    LET r == run[p]
        user == Head(r.users)
        id == Unwrap(user.id) IN
    /\ r.pc = "users" /\ r.users # <<>>
    /\ InsertFresh(r.users_notified, id)
    /\ users' = RecordUsername(users, id, user.login)
    /\ run' = [run EXCEPT ![p] =
                 [r EXCEPT !.users_notified = @ \cup {id},
                           !.calls = Append(@, [op |-> "record_username", user_id |-> id,
                                                login |-> user.login, ok |-> TRUE]),
                           !.pc = "ping"]]
    /\ UNCHANGED notifications

\* lines 178-188: record_username fails: an error is logged, record_ping is next
RecordUsernameFail(p) ==
    LET r == run[p]
        user == Head(r.users)
        id == Unwrap(user.id) IN
    /\ r.pc = "users" /\ r.users # <<>>
    /\ InsertFresh(r.users_notified, id)
    /\ MayFail(r)
    /\ run' = [run EXCEPT ![p] =
                 [r EXCEPT !.users_notified = @ \cup {id},
                           !.calls = Append(@, [op |-> "record_username", user_id |-> id,
                                                login |-> user.login, ok |-> FALSE]),
                           !.log = Logged(r, "error", "record username"),
                           !.faults = @ \cup {"record_username"},
                           !.injected = @ + 1,
                           !.pc = "ping"]]
    /\ UNCHANGED <<notifications, users>>

\* line 198: team_name.clone()
TeamNameOf(r) == r.team_name

\* lines 192-199: the notification of the user at the head of the loop
PingOf(r) ==
    Notification(Unwrap(Head(r.users).id), Unwrap(r.event.html_url),
                 Unwrap(CommentBody(r.event)), r.event.time,
                 Some(r.short_description), TeamNameOf(r))

\* line 194: event.html_url().unwrap() on an event without URL panics
RecordPingPanic(p) ==
    LET r == run[p] IN
    /\ r.pc = "ping"
    /\ r.event.html_url = None
    /\ run' = [run EXCEPT ![p] =
                 [r EXCEPT !.pc = "done", !.result = "panic",
                           !.faults = @ \cup {"no_html_url"}]]
    /\ UNCHANGED <<notifications, users>>

\* faulty variant: the new notification replaces the user's earlier ones of
\* the same origin URL
RecordPingReplacing(p) ==
    LET r == run[p] IN
    /\ r.pc = "ping"
    /\ r.event.html_url # None
    /\ notifications' = RecordPing(DeletePing(notifications, PingOf(r).user_id,
                                              PingOf(r).origin_url), PingOf(r))
    /\ run' = [run EXCEPT ![p] =
                 [r EXCEPT !.calls = Append(@, [op |-> "record_ping", n |-> PingOf(r),
                                                ok |-> TRUE]),
                           !.users = Tail(@), !.pc = AfterUsers(Tail(r.users))]]
    /\ UNCHANGED users

\* lines 190-201: record_ping succeeds
RecordPingOk(p) ==
    LET r == run[p] IN
    /\ r.pc = "ping"
    /\ r.event.html_url # None
    /\ notifications' = RecordPing(notifications, PingOf(r))
    /\ run' = [run EXCEPT ![p] =
                 [r EXCEPT !.calls = Append(@, [op |-> "record_ping", n |-> PingOf(r),
                                                ok |-> TRUE]),
                           !.users = Tail(@), !.pc = AfterUsers(Tail(r.users))]]
    /\ UNCHANGED users

\* faulty variant: the error of record_ping ends the loops
AfterPingErrorReturns(us) == "done"

\* lines 203-206: the error of record_ping is logged and the loop goes on
AfterPingError(us) == AfterUsers(Tail(us))

\* faulty variant: a user whose record_ping failed is no longer seen
RecordPingFailForgets(p) ==
    LET r == run[p] IN
    /\ r.pc = "ping"
    /\ r.event.html_url # None
    /\ MayFail(r)
    /\ run' = [run EXCEPT ![p] =
                 [r EXCEPT !.calls = Append(@, [op |-> "record_ping", n |-> PingOf(r),
                                                ok |-> FALSE]),
                           !.log = Logged(r, "error", "record ping"),
                           !.faults = @ \cup {"record_ping"},
                           !.injected = @ + 1,
                           !.users_notified = @ \ {PingOf(r).user_id},
                           !.users = Tail(@), !.pc = AfterPingError(r.users)]]
    /\ UNCHANGED <<notifications, users>>

\* lines 190-205: record_ping fails: an error is logged, next user
RecordPingFail(p) ==
    LET r == run[p] IN
    /\ r.pc = "ping"
    /\ r.event.html_url # None
    /\ MayFail(r)
    /\ run' = [run EXCEPT ![p] =
                 [r EXCEPT !.calls = Append(@, [op |-> "record_ping", n |-> PingOf(r),
                                                ok |-> FALSE]),
                           !.log = Logged(r, "error", "record ping"),
                           !.faults = @ \cup {"record_ping"},
                           !.injected = @ + 1,
                           !.users = Tail(@), !.pc = AfterPingError(r.users)]]
    /\ UNCHANGED <<notifications, users>>

(***************************************************************************)
(* One run of handle.                                                      *)
(***************************************************************************)
Running(p) ==
    \/ AckNoId(p) \/ AckConnFail(p) \/ AckDelete(p) \/ AckDeleteFail(p)
    \/ GateSkip(p) \/ GateProceed(p)
    \/ TeamErr(p) \/ TeamAbsent(p) \/ TeamFound(p)
    \/ GetIdErr(p) \/ GetIdAbsent(p) \/ GetIdFound(p)
    \/ Finish(p)
    \/ UserSeen(p) \/ RecordUsernameOk(p) \/ RecordUsernameFail(p)
    \/ RecordPingPanic(p) \/ RecordPingOk(p) \/ RecordPingFail(p)

Step(p) == Start(p) \/ Running(p)

Next == Step(1)

Spec == Init /\ [][Next]_vars

(***************************************************************************)
(* Two events one after the other: handle runs as process 1 on the first   *)
(* and, once that run has ended, as process 2 on the second.               *)
(***************************************************************************)
Event(family, action, body, html_url, user) ==
    [family |-> family, action |-> action, body |-> Some(body), title |-> Title,
     html_url |-> html_url, user |-> user, time |-> EventTime]

Alice == [login |-> "alice", id |-> Some(U64(7))]
Mallory == [login |-> "mallory", id |-> None]
Issue1 == "https://example.com/1"
Issue2 == "https://example.com/2"

Issue42 == "https://example.com/42"

\* "hi @alice, see also @rust-lang/core and acknowledge https://example.com/42"
\* as a created comment of alice
ExampleComment ==
    Event("IssueComment", "Created",
          <<Mention(<<"alice">>), Mention(<<"rust-lang", "core">>), Ack(Issue42)>>,
          Some(Issue1), Alice)

SeqEvents ==
    { ExampleComment,
      Event("Issue", "Opened",
            <<Mention(<<"alice">>), Mention(<<"rust-lang", "core">>)>>, Some(Issue1), Alice),
      Event("IssueComment", "Created",
            <<Mention(<<"alice">>), Ack(Issue1)>>, Some(Issue1), Alice),
      Event("IssueComment", "Edited",
            <<Ack(Issue1), Ack(Issue2)>>, Some(Issue2), Alice),
      Event("IssueComment", "Created",
            <<Mention(<<"ghost">>), Mention(<<"rust-lang", "nope">>)>>, Some(Issue2), Mallory),
      Event("Issue", "Opened",
            <<Mention(<<"bob">>)>>, None, Mallory),
      Event("Issue", "Edited",
            <<Mention(<<"bob">>), Ack(Issue1)>>, Some(Issue1), Mallory) }

SeqNext ==
    \/ StartIn(1, SeqEvents)
    \/ Running(1)
    \/ run[1].pc = "done" /\ StartIn(2, SeqEvents)
    \/ Running(2)

SpecSeq == Init /\ [][SeqNext]_vars

(***************************************************************************)
(* Two events at the same time: handle runs as process 1 and as process 2, *)
(* and the calls of the two runs to the directory and the store interleave *)
(* in any order; each call to the store is atomic.                         *)
(***************************************************************************)
ConcEvents ==
    { Event("Issue", "Opened",
            <<Mention(<<"alice">>)>>, Some(Issue1), Mallory),
      Event("IssueComment", "Created",
            <<Mention(<<"alice">>), Mention(<<"rust-lang", "core">>)>>, Some(Issue2), Alice),
      Event("IssueComment", "Edited",
            <<Ack(Issue1)>>, Some(Issue2), Alice),
      Event("Issue", "Opened",
            <<Mention(<<"ghost">>), Mention(<<"rust-lang", "nope">>), Mention(<<"bob">>)>>,
            None, Alice),
      Event("IssueComment", "Created",
            <<Ack(Issue1)>>, Some(Issue1), Mallory) }

ConcNext == \E p \in Procs : StartIn(p, ConcEvents) \/ Running(p)

SpecConc == Init /\ [][ConcNext]_vars

(***************************************************************************)
(* Vocabulary of the properties.                                           *)
(***************************************************************************)
Range(s) == { s[i] : i \in DOMAIN s }

\* the calls of one kind a run has made, as indices of its history
CallsOf(r, op) == { i \in DOMAIN r.calls : r.calls[i].op = op }

\* the ids record_ping was called for / has recorded
PingedIds(r) == { r.calls[i].n.user_id : i \in CallsOf(r, "record_ping") }
RecordedIds(r) ==
    { r.calls[i].n.user_id : i \in { j \in CallsOf(r, "record_ping") : r.calls[j].ok } }

\* the event passes the gate: an opened issue or a created comment
Passes(e) ==
    \/ e.family = "Issue" /\ e.action = "Opened"
    \/ e.family = "IssueComment" /\ e.action = "Created"

\* the tokens of the event's body
TokensOf(e) == PingCaptures(Unwrap(e.body))

InRange(id) == id[1] < TopLimbSignBit

\* the ids of the members of a team that fit the ledger
MembersInRange(team) ==
    { team.members[i].github_id : i \in { j \in DOMAIN team.members :
                                            InRange(team.members[j].github_id) } }

AllInRange(team) == \A i \in DOMAIN team.members : InRange(team.members[i].github_id)

\* the ids a token stands for when it resolves: the user of a direct
\* mention, the members of a team whose ids all convert
UsersOf(tok) ==
    IF Len(tok) = 1
    THEN IF DirGetId(tok[1]) # None /\ InRange(Unwrap(DirGetId(tok[1])))
         THEN {Unwrap(DirGetId(tok[1]))} ELSE {}
    ELSE IF DirGetTeam(tok[2]) # None /\ AllInRange(Unwrap(DirGetTeam(tok[2])))
         THEN MembersInRange(Unwrap(DirGetTeam(tok[2]))) ELSE {}

Finished(r) == r.pc = "done" /\ r.event.body # None

\* the ledger has no notification of the user with that origin URL
HasNoRow(rows, user_id, url) ==
    \A i \in DOMAIN rows : ~(rows[i].user_id = user_id /\ rows[i].origin_url = url)

\* the acknowledgement of url was attempted: delete_ping was called for the
\* acting user and url, or make_db_client failed on the way to that call
AckAttempted(r, url) ==
    \/ \E i \in CallsOf(r, "delete_ping") :
          r.calls[i].url = url /\ r.calls[i].user_id = Unwrap(r.event.user.id)
    \/ \E i \in CallsOf(r, "make_db_client") : r.calls[i].url = url

\* the directory was asked about the token
LookedUp(r, tok) ==
    IF Len(tok) = 1
    THEN \E i \in CallsOf(r, "get_id") : r.calls[i].login = tok[1]
    ELSE \E i \in CallsOf(r, "get_team") : r.calls[i].team = tok[2]

\* get_id failed for the token
LookupFailed(r, tok) ==
    /\ Len(tok) = 1
    /\ \E i \in CallsOf(r, "get_id") : ~r.calls[i].ok /\ r.calls[i].login = tok[1]

\* the failures of the two ledger writes of the mention pass
WriteFaults == {"record_username", "record_ping"}

\* a direct mention of a user the directory knows, with an id that fits
DirectKnown(tok) ==
    Len(tok) = 1 /\ DirGetId(tok[1]) # None /\ InRange(Unwrap(DirGetId(tok[1])))

(***************************************************************************)
(* C1: in one run of handle, record_ping is called at most once for each   *)
(* user id, whatever tokens lead to that id.                               *)
(***************************************************************************)
C1_OnePingPerUser ==
    \A p \in Procs :
        \A i, j \in CallsOf(run[p], "record_ping") :
            run[p].calls[i].n.user_id = run[p].calls[j].n.user_id => i = j

\* a finished run that reached alice both directly and through team core
C1_Witness ==
    \E p \in Procs :
        /\ Finished(run[p]) /\ run[p].result = "Ok"
        /\ TokensOf(run[p].event) = {<<"alice">>, <<"rust-lang", "core">>}
        /\ CallsOf(run[p], "get_id") # {} /\ CallsOf(run[p], "get_team") # {}
        /\ RecordedIds(run[p]) = {U64(7), U64(9)}

(***************************************************************************)
(* C2: an issue event that is not Opened and a comment event that is not   *)
(* Created call neither record_username nor record_ping; an Opened issue   *)
(* or Created comment on which nothing fails records a notification for    *)
(* every user its mentions resolve to.                                     *)
(***************************************************************************)
C2_EventGate ==
    \A p \in Procs :
        LET r == run[p] IN
        /\ (r.pc # "idle" /\ ~Passes(r.event)) =>
               CallsOf(r, "record_username") \cup CallsOf(r, "record_ping") = {}
        /\ (Finished(r) /\ Passes(r.event) /\ r.faults = {}) =>
               \A tok \in TokensOf(r.event) : UsersOf(tok) \subseteq RecordedIds(r)

\* an edited comment that mentions alice and team core has finished
C2_Witness ==
    \E p \in Procs :
        /\ Finished(run[p]) /\ run[p].gate = "skip"
        /\ run[p].event.action = "Edited"
        /\ TokensOf(run[p].event) = {<<"alice">>, <<"rust-lang", "core">>}

(***************************************************************************)
(* C3: for every event with a body, whatever its family and action, each   *)
(* acknowledged URL leads to a delete_ping for (acting user's id, URL)     *)
(* when the acting user has an id, before the gate is evaluated.  A failed *)
(* make_db_client for the URL counts as the attempt.                       *)
(***************************************************************************)
C3_AcksNotGated ==
    \A p \in Procs :
        LET r == run[p] IN
        (r.event.body # None /\ r.event.user.id # None
            /\ (r.gate # "unevaluated" \/ r.pc = "done")) =>
            \A url \in Range(AckCaptures(Unwrap(r.event.body))) : AckAttempted(r, url)

(***************************************************************************)
(* C4: when the acting user has no id, the acknowledgements are skipped    *)
(* and the rest of the event still runs: an Opened issue or Created        *)
(* comment with an acknowledgement and resolvable mentions still records   *)
(* the notifications.                                                      *)
(***************************************************************************)
C4_NoActorIdStillPings ==
    \A p \in Procs :
        LET r == run[p] IN
        (Finished(r) /\ Passes(r.event) /\ r.event.user.id = None
            /\ AckCaptures(Unwrap(r.event.body)) # <<>>
            /\ r.event.html_url # None /\ r.injected = 0) =>
            \A tok \in TokensOf(r.event) : UsersOf(tok) \subseteq RecordedIds(r)

(***************************************************************************)
(* C5: a failure of delete_ping or of make_db_client in the                *)
(* acknowledgement loop is logged and not propagated: every             *)
(* acknowledgement is still attempted and the gate is still evaluated.     *)
(***************************************************************************)
C5_DeleteFailureContained ==
    \A p \in Procs :
        LET r == run[p] IN
        (Finished(r) /\ r.faults # {}
            /\ r.faults \subseteq {"delete_ping", "make_db_client"}) =>
            /\ r.result = "Ok"
            /\ r.gate # "unevaluated"
            /\ \E i \in DOMAIN r.log : r.log[i].level = "warn"
            /\ \A url \in Range(AckCaptures(Unwrap(r.event.body))) : AckAttempted(r, url)

(***************************************************************************)
(* C6: an error of get_id for one direct mention skips only that token:    *)
(* every other token of the event is still looked up and its users are     *)
(* still notified.                                                         *)
(***************************************************************************)
C6_GetIdErrorSkipsOneToken ==
    \A p \in Procs :
        LET r == run[p] IN
        (Finished(r) /\ r.event.html_url # None /\ r.faults = {"get_id"}) =>
            \A tok \in TokensOf(r.event) :
                /\ LookedUp(r, tok)
                /\ ~LookupFailed(r, tok) => UsersOf(tok) \subseteq RecordedIds(r)

(***************************************************************************)
(* C7: when one member of a mentioned team has an id that does not fit     *)
(* i64, only that member is skipped: every other member of the team gets   *)
(* its notification.                                                       *)
(***************************************************************************)
C7_OutOfRangeMemberSkippedAlone ==
    \A p \in Procs :
        LET r == run[p] IN
        (Finished(r) /\ Passes(r.event) /\ r.event.html_url # None
            /\ r.injected = 0 /\ r.faults \subseteq {"out_of_bounds"}) =>
            \A tok \in TokensOf(r.event) :
                (Len(tok) = 2 /\ DirGetTeam(tok[2]) # None) =>
                    MembersInRange(Unwrap(DirGetTeam(tok[2]))) \subseteq RecordedIds(r)

(***************************************************************************)
(* C8: a failing record_username or record_ping for one user leaves the    *)
(* notifications recorded before it in the ledger and does not prevent the *)
(* record_ping of the users and tokens after it; record_ping is still      *)
(* called for the user whose record_username failed.                       *)
(***************************************************************************)
C8_WriteFailureContained ==
    \A p \in Procs :
        LET r == run[p] IN
        \* what was recorded stays recorded
        /\ \A i \in CallsOf(r, "record_ping") :
               r.calls[i].ok => r.calls[i].n \in Range(notifications)
        \* record_username, failed or not, is followed by record_ping
        /\ r.event.html_url # None =>
               \A i \in CallsOf(r, "record_username") :
                   IF i = Len(r.calls) THEN r.pc = "ping"
                   ELSE /\ r.calls[i + 1].op = "record_ping"
                        /\ r.calls[i + 1].n.user_id = r.calls[i].user_id
        \* every user of every token is attempted, and all but the failed
        \* write are recorded
        /\ (Finished(r) /\ r.faults \cap WriteFaults # {}
                /\ r.faults \subseteq WriteFaults \cup {"out_of_bounds"}) =>
               /\ r.result = "Ok"
               /\ \A tok \in TokensOf(r.event) : UsersOf(tok) \subseteq PingedIds(r)
               /\ \A i \in CallsOf(r, "record_ping") :
                      r.calls[i].ok \/ "record_ping" \in r.faults

\* record_username failed for alice, the first member of team core, and
\* both members were recorded
C8_Witness ==
    \E p \in Procs :
        LET r == run[p] IN
        /\ Finished(r) /\ r.faults = {"record_username"}
        /\ TokensOf(r.event) = {<<"rust-lang", "core">>}
        /\ \E i \in CallsOf(r, "record_username") :
              ~r.calls[i].ok /\ r.calls[i].user_id = U64(7)
        /\ RecordedIds(r) = {U64(7), U64(9)}

(***************************************************************************)
(* C9: an Opened issue or Created comment whose n distinct tokens are all  *)
(* direct mentions of n distinct known users, on which nothing fails,      *)
(* records exactly n notifications, one for each user, each with           *)
(* team_name = None.                                                       *)
(***************************************************************************)
C9_DirectMentions ==
    \A p \in Procs :
        LET r == run[p]
            toks == TokensOf(r.event)
            pings == CallsOf(r, "record_ping") IN
        (Finished(r) /\ Passes(r.event) /\ r.faults = {}
            /\ (\A tok \in toks : DirectKnown(tok))
            /\ (\A s, t \in toks : DirGetId(s[1]) = DirGetId(t[1]) => s = t)) =>
            /\ Cardinality(pings) = Cardinality(toks)
            /\ PingedIds(r) = { Unwrap(DirGetId(tok[1])) : tok \in toks }
            /\ \A i \in pings :
                  /\ r.calls[i].ok
                  /\ r.calls[i].n.team_name = None
                  /\ r.calls[i].n \in Range(notifications)

\* alice and bob were mentioned and two notifications were recorded
C9_Witness ==
    \E p \in Procs :
        LET r == run[p] IN
        /\ Finished(r) /\ Passes(r.event) /\ r.faults = {}
        /\ TokensOf(r.event) = {<<"alice">>, <<"bob">>}
        /\ Cardinality(CallsOf(r, "record_ping")) = 2

(***************************************************************************)
(* C10: an Opened issue or Created comment whose only token is a team      *)
(* mention @org/team of a known team with m members of distinct ids that   *)
(* fit, on which nothing fails, records exactly m notifications, one for   *)
(* each member, each with the team's name; what stands before the '/'      *)
(* does not matter.                                                        *)
(***************************************************************************)
C10_TeamMention ==
    \A p \in Procs :
        LET r == run[p]
            toks == TokensOf(r.event)
            pings == CallsOf(r, "record_ping") IN
        (Finished(r) /\ Passes(r.event) /\ r.faults = {}
            /\ Cardinality(toks) = 1
            /\ \A tok \in toks :
                  /\ Len(tok) = 2 /\ DirGetTeam(tok[2]) # None
                  /\ AllInRange(Unwrap(DirGetTeam(tok[2])))) =>
            \A tok \in toks :
               LET team == Unwrap(DirGetTeam(tok[2])) IN
               /\ Cardinality(pings) = Len(team.members)
               /\ PingedIds(r) = MembersInRange(team)
               /\ \A i \in pings :
                     /\ r.calls[i].ok
                     /\ r.calls[i].n.team_name = Some(team.name)
                     /\ r.calls[i].n \in Range(notifications)

\* @other/core was the only mention and both members of core were recorded
C10_Witness ==
    \E p \in Procs :
        LET r == run[p] IN
        /\ Finished(r) /\ Passes(r.event) /\ r.faults = {}
        /\ TokensOf(r.event) = {<<"other", "core">>}
        /\ RecordedIds(r) = {U64(7), U64(9)}

(***************************************************************************)
(* C11: acknowledging a URL for which the ledger holds no notification of  *)
(* the acting user is a successful no-op: the delete_ping leaves the       *)
(* notifications as they are, nothing is logged for it, and handle does    *)
(* not end in an error because of it.                                      *)
(***************************************************************************)
C11_AckWithoutRowIsNoOp ==
    [][\A p \in Procs :
          LET r == run[p] IN
          (/\ r.pc = "ack" /\ r.acks # <<>> /\ r.event.user.id # None
           /\ HasNoRow(notifications, Unwrap(r.event.user.id), Head(r.acks))
           /\ CallsOf(run'[p], "delete_ping") # CallsOf(r, "delete_ping")
           /\ run'[p].calls[Len(run'[p].calls)].ok) =>
              /\ notifications' = notifications
              /\ run'[p].log = r.log
              /\ run'[p].result = "none" /\ run'[p].pc = "ack"]_vars

\* alice has acknowledged issue 2, for which only bob has a notification
C11_Witness ==
    \E p \in Procs :
        LET r == run[p] IN
        /\ r.event.user.id = Some(U64(7))
        /\ \E i \in CallsOf(r, "delete_ping") :
              r.calls[i].ok /\ r.calls[i].url = "https://example.com/2"
        /\ notifications = EarlierRows

\* the run has recorded a notification of the user with that origin URL
RecordedBy(r, user_id, url) ==
    \E i \in CallsOf(r, "record_ping") :
        r.calls[i].ok /\ r.calls[i].n.user_id = user_id /\ r.calls[i].n.origin_url = url

\* the body of the event acknowledges the URL
Acknowledges(e, url) ==
    e.body # None /\ url \in Range(AckCaptures(Unwrap(e.body)))

\* the run has deleted the notifications of the user with that origin URL
DeletedBy(r, user_id, url) ==
    \E i \in CallsOf(r, "delete_ping") :
        r.calls[i].ok /\ r.calls[i].user_id = user_id /\ r.calls[i].url = url

LedgerIds == { U64(7), U64(9) }

(***************************************************************************)
(* C12 as stated: once one event has recorded a notification for           *)
(* (user_id, origin_url), a later event of that user that acknowledges     *)
(* origin_url, with every call succeeding, ends with no row of             *)
(* (user_id, origin_url) in the ledger.                                    *)
(***************************************************************************)
C12_RoundTrip ==
    \A u \in LedgerIds, url \in Urls :
        (/\ RecordedBy(run[1], u, url)
         /\ Finished(run[2]) /\ run[2].faults = {}
         /\ run[2].event.user.id = Some(u)
         /\ Acknowledges(run[2].event, url)) =>
            HasNoRow(notifications, u, url)

(***************************************************************************)
(* C12 amended: once one event has recorded a notification for             *)
(* (user_id, origin_url), a later event of that user whose delete_ping for *)
(* origin_url succeeded, and which does not itself record a notification   *)
(* for (user_id, origin_url), ends with no row of (user_id, origin_url),   *)
(* whatever the other columns of the rows were.                            *)
(***************************************************************************)
C12_RoundTripUnlessRecordedAgain ==
    \A u \in LedgerIds, url \in Urls :
        (/\ RecordedBy(run[1], u, url)
         /\ Finished(run[2])
         /\ run[2].event.user.id = Some(u)
         /\ DeletedBy(run[2], u, url)
         /\ ~RecordedBy(run[2], u, url)) =>
            HasNoRow(notifications, u, url)

\* alice was pinged on issue 1 by the first event, on top of the earlier team
\* ping there, and her edited comment on issue 2 has acknowledged issue 1
C12_Witness ==
    /\ RecordedBy(run[1], U64(7), Issue1)
    /\ Finished(run[2]) /\ run[2].event.action = "Edited"
    /\ DeletedBy(run[2], U64(7), Issue1)
    /\ HasNoRow(notifications, U64(7), Issue1)

\* the notifications a run has recorded, in the order of the calls
RecordedRows(r) ==
    LET ok == SelectSeq(r.calls, LAMBDA c : c.op = "record_ping" /\ c.ok) IN
    [i \in DOMAIN ok |-> ok[i].n]

\* the run first deleted the notification of alice for issue 42 and then
\* recorded exactly one notification for id 7 and one for id 9, both with
\* the description of a comment
DeletesThenRecordsTwo(r) ==
    /\ r.calls # <<>>
    /\ r.calls[1] = [op |-> "delete_ping", user_id |-> U64(7), url |-> Issue42, ok |-> TRUE]
    /\ Cardinality(CallsOf(r, "delete_ping")) = 1
    /\ Len(RecordedRows(r)) = 2
    /\ { n.user_id : n \in Range(RecordedRows(r)) } = { U64(7), U64(9) }
    /\ \A n \in Range(RecordedRows(r)) :
          n.short_description = Some(<<"Comment on ", Title>>)

TeamNameRecorded(r, user_id) ==
    { n.team_name : n \in { m \in Range(RecordedRows(r)) : m.user_id = user_id } }

(***************************************************************************)
(* C13 as stated: for the created comment "hi @alice, see also             *)
(* @rust-lang/core and acknowledge https://example.com/42", with every     *)
(* call succeeding, handle first deletes the notification keyed            *)
(* (actor, issue 42) and then records exactly two notifications, for id 7  *)
(* and id 9, both with the team's name as team_name and both with          *)
(* short_description "Comment on <issue title>".                           *)
(***************************************************************************)
C13_ExampleBothFromTeam ==
    \A p \in Procs :
        LET r == run[p] IN
        (Finished(r) /\ r.event = ExampleComment /\ r.faults = {}) =>
            /\ DeletesThenRecordsTwo(r)
            /\ TeamNameRecorded(r, U64(7)) = {Some("core")}
            /\ TeamNameRecorded(r, U64(9)) = {Some("core")}

(***************************************************************************)
(* C13 amended: the same, but only the notification of id 9 is sure to     *)
(* carry the team's name; that of id 7 carries the team's name or no       *)
(* team_name, as the set of captured tokens yields the team or the direct  *)
(* mention first.                                                          *)
(***************************************************************************)
C13_ExampleTeamOrDirect ==
    \A p \in Procs :
        LET r == run[p] IN
        (Finished(r) /\ r.event = ExampleComment /\ r.faults = {}) =>
            /\ DeletesThenRecordsTwo(r)
            /\ TeamNameRecorded(r, U64(7)) \in {{Some("core")}, {None}}
            /\ TeamNameRecorded(r, U64(9)) = {Some("core")}

\* the example has run to its end without failure and alice's notification
\* came from her direct mention
C13_Witness ==
    \E p \in Procs :
        LET r == run[p] IN
        /\ Finished(r) /\ r.event = ExampleComment /\ r.faults = {}
        /\ TeamNameRecorded(r, U64(7)) = {None}
        /\ TeamNameRecorded(r, U64(9)) = {Some("core")}

(***************************************************************************)
(* C14: handle never raises to its caller: whatever the event and whatever *)
(* fails on the way, a run that has ended has returned success, neither an *)
(* error nor a panic.                                                      *)
(***************************************************************************)
C14_NeverRaises ==
    \A p \in Procs : run[p].pc = "done" => run[p].result = "Ok"

(***************************************************************************)
(* C15: an event without text body is a no-op: handle returns success      *)
(* without any call to the directory or the store, and the ledger is as it *)
(* was.                                                                    *)
(***************************************************************************)
C15_NoBodyIsNoOp ==
    \A p \in Procs :
        LET r == run[p] IN
        (r.pc # "idle" /\ r.event.body = None) =>
            /\ r.pc = "done" /\ r.result = "Ok"
            /\ r.calls = <<>>
            /\ notifications = EarlierRows /\ users = EarlierNames

\* handle has run on a created comment of alice without body
C15_Witness ==
    \E p \in Procs :
        LET r == run[p] IN
        /\ r.pc = "done" /\ r.event.body = None
        /\ r.event.family = "IssueComment" /\ r.event.action = "Created"
        /\ r.event.user.id = Some(U64(7)) /\ r.event.html_url # None

\* the places of the body whose mention leads to the id
Reaching(body, user_id) ==
    { i \in DOMAIN body : body[i].kind = "mention" /\ user_id \in UsersOf(body[i].val) }

ReachedDirectly(body, user_id) == \E i \in Reaching(body, user_id) : Len(body[i].val) = 1
ReachedByTeam(body, user_id) == \E i \in Reaching(body, user_id) : Len(body[i].val) = 2

\* the team_name of the first mention of the body that leads to the id
FirstTeamName(body, user_id) ==
    LET first == CHOOSE i \in Reaching(body, user_id) :
                     \A j \in Reaching(body, user_id) : i <= j
        tok == body[first].val IN
    IF Len(tok) = 1 THEN None ELSE Some(Unwrap(DirGetTeam(tok[2])).name)

(***************************************************************************)
(* C16: first occurrence wins in scan order: when an id is reachable both  *)
(* through a team mention and through a direct mention of one event, the   *)
(* one notification recorded for it has the team_name of the token that    *)
(* comes first in the body: none for the direct mention, the team's name   *)
(* for the team mention.                                                   *)
(***************************************************************************)
C16_FirstOccurrenceWins ==
    \A p \in Procs :
        LET r == run[p] IN
        (Finished(r) /\ r.faults = {} /\ r.result = "Ok" /\ Passes(r.event)) =>
            \A u \in LedgerIds :
                LET body == Unwrap(r.event.body) IN
                (ReachedDirectly(body, u) /\ ReachedByTeam(body, u)) =>
                    TeamNameRecorded(r, u) = {FirstTeamName(body, u)}

\* the ids record_username was called for
NamedIds(r) == { r.calls[i].user_id : i \in CallsOf(r, "record_username") }

\* the token was looked up and the lookup gave an answer
Resolved(r, tok) ==
    IF Len(tok) = 1
    THEN \E i \in CallsOf(r, "get_id") : r.calls[i].ok /\ r.calls[i].login = tok[1]
    ELSE \E i \in CallsOf(r, "get_team") : r.calls[i].ok /\ r.calls[i].team = tok[2]

\* the step from r to s is a lookup that found no user or no team, or a team
\* lookup that failed
AbsentLookup(r, s) ==
    /\ Len(s.calls) = Len(r.calls) + 1
    /\ LET c == s.calls[Len(s.calls)] IN
       \/ c.op = "get_id" /\ c.ok /\ DirGetId(c.login) = None
       \/ c.op = "get_team" /\ (~c.ok \/ DirGetTeam(c.team) = None)

\* no record_username and no record_ping call for an id that no answered
\* lookup of a token of the body has given
OnlyResolvedIdsWritten ==
    \A p \in Procs :
        LET r == run[p] IN
        r.pc # "idle" /\ r.event.body # None =>
            PingedIds(r) \cup NamedIds(r) \subseteq
                UNION { UsersOf(tok) : tok \in { t \in TokensOf(r.event) : Resolved(r, t) } }

\* a lookup without result drops its token and nothing else
AbsentLookupSkipsToken ==
    \A p \in Procs :
        AbsentLookup(run[p], run'[p]) =>
            /\ run'[p].pc = "mention" /\ run'[p].result = "none"
            /\ run'[p].caps \subseteq run[p].caps
            /\ Cardinality(run[p].caps \ run'[p].caps) = 1
            /\ run'[p].users = <<>>
            /\ notifications' = notifications /\ users' = users

(***************************************************************************)
(* C17: absence is a soft skip: a direct mention whose login has no id, a  *)
(* team mention whose team is unknown or whose lookup fails, lead to no    *)
(* record_username and no record_ping call for that token, and the other   *)
(* tokens of the event stay to be processed; no notification is recorded   *)
(* for a user without resolved id.                                         *)
(***************************************************************************)
C17_AbsenceIsSoftSkip ==
    []OnlyResolvedIdsWritten /\ [][AbsentLookupSkipsToken]_vars

\* ghost was looked up without result before alice was looked up and pinged
C17_Witness ==
    \E p \in Procs :
        LET r == run[p] IN
        /\ Finished(r) /\ r.result = "Ok"
        /\ RecordedIds(r) = {U64(7)}
        /\ \E i \in CallsOf(r, "get_id"), j \in CallsOf(r, "get_id") :
              i < j /\ r.calls[i].login = "ghost" /\ r.calls[j].login = "alice"

\* the rows that are not of the user with that origin URL
RowsOfOthers(rows, user_id, url) ==
    SelectSeq(rows, LAMBDA n : ~(n.user_id = user_id /\ n.origin_url = url))

IsPrefix(s, t) == Len(s) <= Len(t) /\ SubSeq(t, 1, Len(s)) = s

\* the step of the run from r to s has called delete_ping
Deletes(r, s) ==
    /\ Len(s.calls) = Len(r.calls) + 1
    /\ s.calls[Len(s.calls)].op = "delete_ping"

\* a step that calls delete_ping is a step of the acknowledgement pass, the
\* call is keyed by the acting user's id and an acknowledged URL, and all
\* rows of other users or other URLs stay as they are; any other step
\* removes no row
DeletesOnlyOwnAcknowledged(p) ==
    LET r == run[p]
        s == run'[p] IN
    IF Deletes(r, s)
    THEN LET c == s.calls[Len(s.calls)] IN
         /\ r.pc = "ack" /\ r.gate = "unevaluated"
         /\ Some(c.user_id) = r.event.user.id
         /\ c.url \in Range(AckCaptures(Unwrap(r.event.body)))
         /\ RowsOfOthers(notifications', c.user_id, c.url)
                = RowsOfOthers(notifications, c.user_id, c.url)
    ELSE IsPrefix(notifications, notifications')

(***************************************************************************)
(* C18: an acknowledgement only retracts notifications of the acting user: *)
(* every delete is keyed (acting user's id, acknowledged URL), so the      *)
(* notifications of other users with that URL and those of the acting user *)
(* with other URLs are unchanged, and the mention pass deletes nothing.    *)
(***************************************************************************)
C18_DeleteOnlyOwnAcknowledged ==
    [][\A p \in Procs : (run'[p] # run[p]) => DeletesOnlyOwnAcknowledged(p)]_vars

\* alice has acknowledged issue 1 and been pinged there again: her earlier
\* row of issue 1 is gone, bob's row of issue 1 and her row of issue 3 are
\* still there, the new row is the last
C18_Witness ==
    \E p \in Procs :
        LET r == run[p] IN
        /\ Finished(r)
        /\ DeletedBy(r, U64(7), Issue1)
        /\ RecordedBy(r, U64(7), Issue1)
        /\ Len(notifications) = Len(EarlierRows)
        /\ SubSeq(notifications, 1, Len(EarlierRows) - 1) = Tail(EarlierRows)

\* the record_ping calls of the run for the id
PingsFor(r, user_id) ==
    { i \in CallsOf(r, "record_ping") : r.calls[i].n.user_id = user_id }

\* an id whose record_ping has failed is seen, was tried once and has no
\* notification of this run
FailedPingIsFinal ==
    \A p \in Procs :
        LET r == run[p] IN
        \A i \in CallsOf(r, "record_ping") :
            ~r.calls[i].ok =>
                /\ r.calls[i].n.user_id \in r.users_notified
                /\ PingsFor(r, r.calls[i].n.user_id) = {i}
                /\ r.calls[i].n.user_id \notin RecordedIds(r)

\* within a run no id leaves the seen set, and a write is for a seen id
SeenBeforeWritten ==
    \A p \in Procs :
        LET r == run[p]
            s == run'[p] IN
        (r.pc # "idle" /\ s # r) =>
            /\ r.users_notified \subseteq s.users_notified
            /\ (Len(s.calls) = Len(r.calls) + 1 =>
                  LET c == s.calls[Len(s.calls)] IN
                  /\ c.op = "record_username" => c.user_id \in s.users_notified
                  /\ c.op = "record_ping" => c.n.user_id \in r.users_notified)

(***************************************************************************)
(* C19: an id is marked as seen before its ledger writes and is never      *)
(* unmarked: when record_ping fails for an id reached through one token,   *)
(* the same id reached through a later token of the event is skipped, with *)
(* no second attempt, so that a mentioned, resolvable user can end the     *)
(* event without notification.                                             *)
(***************************************************************************)
C19_NoRetryWithinEvent ==
    []FailedPingIsFinal /\ [][SeenBeforeWritten]_vars

\* "@alice @rust-lang/core": record_ping failed for alice's id, which was
\* reached again through the other token afterwards; only bob was recorded
C19_Witness ==
    \E p \in Procs :
        LET r == run[p] IN
        /\ Finished(r) /\ r.result = "Ok"
        /\ TokensOf(r.event) = { <<"alice">>, <<"rust-lang", "core">> }
        /\ \E i \in PingsFor(r, U64(7)) : ~r.calls[i].ok
        /\ Cardinality(CallsOf(r, "get_id") \cup CallsOf(r, "get_team")) = 2
        /\ RecordedIds(r) = {U64(9)}

\* the event mentions the id, directly or through a team
Mentions(e, user_id) ==
    e.body # None /\ \E tok \in TokensOf(e) : user_id \in UsersOf(tok)

\* the run has ended in success on an event that passes the gate, without
\* any failure on the way
RanClean(r) ==
    Finished(r) /\ r.result = "Ok" /\ r.faults = {} /\ Passes(r.event)

\* the rows handle has added to the earlier ones, when nothing was deleted
AddedRows == SubSeq(notifications, Len(EarlierRows) + 1, Len(notifications))

(***************************************************************************)
(* C20: the seen set is per event: when two opened/created events that     *)
(* mention the same resolvable user are handled at the same time, then     *)
(* under every interleaving of their lookups and writes, all succeeding,   *)
(* each event records exactly one notification for that user, with its own *)
(* origin URL: two rows in total.                                          *)
(***************************************************************************)
C20_SeenSetIsPerEvent ==
    \A u \in LedgerIds :
        (/\ \A p \in Procs : RanClean(run[p]) /\ Mentions(run[p].event, u)
                              /\ AckCaptures(Unwrap(run[p].event.body)) = <<>>) =>
            /\ \A p \in Procs :
                  /\ Cardinality(PingsFor(run[p], u)) = 1
                  /\ RecordedBy(run[p], u, Unwrap(run[p].event.html_url))
            /\ Len(SelectSeq(AddedRows, LAMBDA n : n.user_id = u)) = 2
            /\ \A p \in Procs :
                  \E i \in DOMAIN AddedRows :
                      /\ AddedRows[i].user_id = u
                      /\ AddedRows[i].origin_url = Unwrap(run[p].event.html_url)
                      /\ AddedRows[i].origin_html = Unwrap(run[p].event.body)

\* the issue that mentions alice and the comment that mentions alice and
\* her team were handled at the same time: the row of the issue lies between
\* the two rows of the comment
C20_Witness ==
    /\ \A p \in Procs : RanClean(run[p]) /\ Mentions(run[p].event, U64(7))
    /\ run[1].event.html_url = Some(Issue1) /\ run[2].event.html_url = Some(Issue2)
    /\ Len(AddedRows) = 3
    /\ AddedRows[1].origin_url = Issue2 /\ AddedRows[2].origin_url = Issue1
    /\ AddedRows[3].origin_url = Issue2

====
